---- MODULE Spec2Model ----
(***************************************************************************)
(* Model of BluetoothMeshChatServer (src/server.py): the peer registry,    *)
(* the routing table, the message store and queue, the facade operations   *)
(* and the three background loops started by start().                      *)
(*                                                                         *)
(* The server runs on one asyncio event loop, so a coroutine is atomic     *)
(* between two points where it really suspends.  Those points are          *)
(* asyncio.sleep (lines 204, 282, 288) and the bounded queue wait (line    *)
(* 155).  `await self._update_routing_table()` and the put on the          *)
(* unbounded queue never suspend.  Each action below is one such atomic    *)
(* section.                                                                *)
(*                                                                         *)
(* Two things come from outside the class and are modelled as environment  *)
(* actions: the adjacency of the local node (Peer.neighbors is a public    *)
(* set that no method of the class fills) and messages relayed by other    *)
(* nodes, which arrive on message_queue with the TTL their earlier hops    *)
(* left.  One more specification lets the environment link the local node *)
(* to an id that is not registered, which makes the recomputation raise.   *)
(***************************************************************************)
EXTENDS Integers, Sequences, FiniteSets, TLC

VARIABLES
    running,        \* self.running
    peers,          \* self.peers: id -> Peer record
    messages,       \* self.messages: the set of ids that are keys of the store
    routing_table,  \* self.routing_table: destination -> ordered dict next_hop -> cost
    message_queue,  \* self.message_queue: sequence of message ids
    objs,           \* the Message objects created so far, by id (store and queue share them)
    now,            \* time.time()
    procs,          \* the _message_processor tasks, one per start()
    mons,           \* the _peer_monitor tasks
    upds,           \* the _route_updater tasks
    acks,           \* the acknowledgment objects built by _handle_incoming_message
    fwds,           \* history: every call of _forward_message
    outcome,        \* history: what _route_message did with each message
    offline_at,     \* history: when and by which operation a peer was last set offline
    result          \* history: what the last call of a facade operation gave its caller

vars == <<running, peers, messages, routing_table, message_queue, objs, now,
          procs, mons, upds, acks, fwds, outcome, offline_at, result>>

-----------------------------------------------------------------------------
\* Bounds of the model
MaxMsgs == 1        \* Message objects created by send, broadcast and relay
MaxStarts == 1      \* calls of start()
MaxTime == 31       \* the clock stops here
MaxRelayTTL == 1    \* largest TTL a relayed message arrives with
MaxCand == 2        \* candidates of a drawn candidate map
MaxCost == 2        \* largest cost of a drawn candidate
MaxLifeStarts == 2  \* calls of start() in the lifecycle specification
MaxLifeMsgs == 2    \* Message objects created in the lifecycle specification

\* Program constants
DefaultTTL == 10    \* Message.ttl
Timeout == 30       \* _peer_monitor: timeout

LocalId == "srv"
PeerIds == {"p1", "p2"}
AllIds == PeerIds \cup {LocalId}
None == "None"
\* register_peer(peer_id, peer_name, address) calls
Registrations == {<<"p1", "Alice", "a1">>, <<"p2", "Bob", "a2">>}
\* send_message(sender, recipient) and broadcast_message(sender) calls
Sends == {<<"p1", LocalId>>, <<"p1", "p2">>}
Broadcasts == {"p1", LocalId}
ServerName == "MeshServer"
\* The clock jumps by one of these, so that an age of exactly Timeout and an
\* age just above it both occur.
TickSteps == {Timeout, Timeout + 1}

MessageType == [TEXT |-> "text", SYSTEM |-> "system", ROUTE_UPDATE |-> "route_update",
                PEER_DISCOVERY |-> "peer_discovery", ACK |-> "acknowledgment"]

\* A relayed message: sender, recipient and kind.
Relayed == {<<"p1", None, MessageType.TEXT>>, <<"p1", LocalId, MessageType.ACK>>}

Message_empty_route(id, sender, recipient, type, content, ttl, route) ==
    [id |-> id, sender_id |-> sender, recipient_id |-> recipient,
     message_type |-> type, content |-> content, ttl |-> ttl, route |-> << >>]

Message(id, sender, recipient, type, content, ttl, route) ==
    [id |-> id, sender_id |-> sender, recipient_id |-> recipient,
     message_type |-> type, content |-> content, ttl |-> ttl, route |-> route]

Peer(id, name, address, last_seen) ==
    [id |-> id, name |-> name, address |-> address, last_seen |-> last_seen,
     is_online |-> TRUE, neighbors |-> {}]

-----------------------------------------------------------------------------
\* Helpers

\* The orders in which a Python set can be iterated.
Perms(S) ==
    {s \in [1..Cardinality(S) -> S] : \A i, j \in 1..Cardinality(S) : i # j => s[i] # s[j]}

\* d[k] = v on an insertion-ordered dict held as a sequence of <<key, value>>.
DictSet(d, k, v) ==
    IF \E i \in 1..Len(d) : d[i][1] = k
    THEN [i \in 1..Len(d) |-> IF d[i][1] = k THEN <<k, v>> ELSE d[i]]
    ELSE Append(d, <<k, v>>)

DictKeys(d) == {d[i][1] : i \in 1..Len(d)}

\* f with f[k] = v, k added to the domain when new.
Put(f, k, v) == [x \in (DOMAIN f) \cup {k} |-> IF x = k THEN v ELSE f[x]]

-----------------------------------------------------------------------------
\* Routing table

\* The local node's neighbors that are online, in iteration order ord.
online_in_order_any(ps, ord) == ord

online_in_order(ps, ord) == SelectSeq(ord, LAMBDA n : ps[n].is_online)

update_routing_table_ignores_online(ps, rt, ord) ==
    LET others == (DOMAIN ps) \ {LocalId}
        nbrs == ps[LocalId].neighbors
        online == online_in_order(ps, ord)
        best_neighbor == IF online = <<>> THEN None ELSE Head(online)
        rt1 == [d \in (DOMAIN rt) \cup others |-> IF d \in others THEN <<>> ELSE rt[d]]
        rt2 == [d \in DOMAIN rt1 |-> IF d \in nbrs THEN DictSet(rt1[d], d, 1) ELSE rt1[d]]
    IN  [d \in DOMAIN rt2 |->
           IF d \in others /\ d \notin nbrs /\ best_neighbor # None
           THEN DictSet(rt2[d], best_neighbor, 2)
           ELSE rt2[d]]

update_routing_table_relays_neighbors(ps, rt, ord) ==
    LET others == (DOMAIN ps) \ {LocalId}
        nbrs == ps[LocalId].neighbors
        online == online_in_order(ps, ord)
        best_neighbor == IF online = <<>> THEN None ELSE Head(online)
        rt1 == [d \in (DOMAIN rt) \cup others |-> IF d \in others THEN <<>> ELSE rt[d]]
        rt2 == [d \in DOMAIN rt1 |->
                  IF d \in nbrs /\ ps[d].is_online THEN DictSet(rt1[d], d, 1) ELSE rt1[d]]
    IN  [d \in DOMAIN rt2 |->
           IF d \in others /\ best_neighbor # None
           THEN DictSet(rt2[d], best_neighbor, 2)
           ELSE rt2[d]]

\* _update_routing_table.  ord is the order in which the neighbor set of the
\* local node is iterated; best_neighbor is the first online neighbor in it,
\* since every candidate costs 2 and only a strictly lower cost replaces it.
update_routing_table(ps, rt, ord) ==
    LET others == (DOMAIN ps) \ {LocalId}
        nbrs == ps[LocalId].neighbors
        online == online_in_order(ps, ord)
        best_neighbor == IF online = <<>> THEN None ELSE Head(online)
        min_cost == 2
        rt1 == [d \in (DOMAIN rt) \cup others |-> IF d \in others THEN <<>> ELSE rt[d]]
        rt2 == [d \in DOMAIN rt1 |->
                  IF d \in nbrs /\ ps[d].is_online THEN DictSet(rt1[d], d, 1) ELSE rt1[d]]
    IN  [d \in DOMAIN rt2 |->
           IF d \in others /\ d \notin nbrs /\ best_neighbor # None
           THEN DictSet(rt2[d], best_neighbor, min_cost)
           ELSE rt2[d]]

\* self.peers[neighbor_id] raises KeyError for a neighbor that is not in the
\* registry.
update_routing_table_raises(ps) == \E n \in ps[LocalId].neighbors : n \notin DOMAIN ps

\* What _update_routing_table has written when the KeyError is raised: every
\* candidate map emptied, and the neighbors iterated before the unknown one
\* entered at cost 1.
update_routing_table_partial(ps, rt, ord) ==
    LET others == (DOMAIN ps) \ {LocalId}
        k == CHOOSE i \in 1..Len(ord) :
                 ord[i] \notin DOMAIN ps /\ \A j \in 1..(i - 1) : ord[j] \in DOMAIN ps
        done == {ord[j] : j \in 1..(k - 1)}
        rt1 == [d \in (DOMAIN rt) \cup others |-> IF d \in others THEN <<>> ELSE rt[d]]
    IN  [d \in DOMAIN rt1 |->
           IF d \in done /\ ps[d].is_online THEN DictSet(rt1[d], d, 1) ELSE rt1[d]]

\* min(items, key=cost): the first item, in dict order, of the lowest cost.
min_item_first(d) == d[1]

min_item(d) ==
    d[CHOOSE i \in 1..Len(d) :
        \A j \in 1..Len(d) : d[j][2] >= d[i][2] /\ (j < i => d[j][2] > d[i][2])]

\* _get_next_hop: a next hop, None, or the ValueError that min() raises on an
\* empty sequence.
get_next_hop(rt, destination) ==
    IF destination \in DOMAIN rt
    THEN IF rt[destination] = <<>> THEN "ValueError" ELSE min_item(rt[destination])[1]
    ELSE None

IsHop(h) == h # None /\ h # "ValueError"

-----------------------------------------------------------------------------
\* Construction

NeverOffline == [at |-> -1, by |-> "none"]
\* What a call gives its caller is held as a tuple: the returned value, the
\* name of the exception it raised, or nothing before the first call.
NoCall == << >>
Returns(value) == <<value>>
\* A processor task: where it is suspended, the message it is routing, the
\* rest of its neighbor iteration and the size the neighbor set had when the
\* iteration began; online0 is history, the online neighbors at that moment.
IdleProc == [st |-> "new", msg |-> 0, todo |-> <<>>, used |-> 0, online0 |-> {}]

Init ==
    /\ running = FALSE
    /\ peers = [p \in {LocalId} |-> Peer(LocalId, ServerName, "localhost", 0)]
    /\ messages = {}
    /\ routing_table = << >>
    /\ message_queue = << >>
    /\ objs = << >>
    /\ now = 0
    /\ procs = << >>
    /\ mons = << >>
    /\ upds = << >>
    /\ acks = {}
    /\ fwds = {}
    /\ outcome = << >>
    /\ offline_at = [p \in AllIds |-> NeverOffline]
    /\ result = NoCall

-----------------------------------------------------------------------------
\* Facade

start ==
    /\ running' = TRUE
    /\ procs' = Append(procs, IdleProc)
    /\ mons' = Append(mons, "alive")
    /\ upds' = Append(upds, "alive")
    /\ result' = Returns("None")
    /\ UNCHANGED <<peers, messages, routing_table, message_queue, objs, now,
                   acks, fwds, outcome, offline_at>>

stop ==
    /\ running' = FALSE
    /\ result' = Returns("None")
    /\ UNCHANGED <<peers, messages, routing_table, message_queue, objs, now,
                   procs, mons, upds, acks, fwds, outcome, offline_at>>

\* json.dumps of asdict(peer) raises TypeError when a field holds a set, and
\* every Peer record carries its neighbors as a set.
peer_discovery_raises(ps) == \E p \in DOMAIN ps : ps[p].neighbors \subseteq AllIds

\* _broadcast_peer_discovery, when it does not raise: the message it queues.
discovery_message(id, ps) ==
    Message(id, LocalId, None, MessageType.PEER_DISCOVERY, <<"peers", DOMAIN ps>>,
            DefaultTTL, <<LocalId>>)

\* What register_peer hands back to its caller: True, or the TypeError of
\* _broadcast_peer_discovery.
register_peer_returns(ps) == IF peer_discovery_raises(ps) THEN "TypeError" ELSE "True"

register_peer(peer_id, peer_name, address) ==
    LET ps == IF peer_id \in DOMAIN peers
              THEN [peers EXCEPT ![peer_id].name = peer_name,
                                 ![peer_id].address = address,
                                 ![peer_id].last_seen = now,
                                 ![peer_id].is_online = TRUE]
              ELSE Put(peers, peer_id, Peer(peer_id, peer_name, address, now))
    IN  /\ peers' = ps
        /\ offline_at' = [offline_at EXCEPT ![peer_id] = NeverOffline]
        /\ result' = Returns(register_peer_returns(ps))
        /\ IF peer_discovery_raises(ps)
           THEN UNCHANGED <<objs, message_queue, outcome>>
           ELSE /\ Len(objs) < MaxMsgs
                /\ objs' = Append(objs, discovery_message(<<"msg", Len(objs) + 1>>, ps))
                /\ message_queue' = Append(message_queue, Len(objs) + 1)
                /\ outcome' = Append(outcome, "queued")
        /\ UNCHANGED <<running, messages, routing_table, now, procs, mons, upds,
                       acks, fwds>>

unregister_peer_returns_true(ps, peer_id) == "True"

unregister_peer_returns(ps, peer_id) == IF peer_id \in DOMAIN ps THEN "True" ELSE "False"

\* unregister_peer: the record marked offline at time t.
set_offline_keeps_last_seen(ps, peer_id, t) == [ps EXCEPT ![peer_id].is_online = FALSE]

set_offline(ps, peer_id, t) ==
    [ps EXCEPT ![peer_id].is_online = FALSE, ![peer_id].last_seen = t]

unregister_peer(peer_id) ==
    IF peer_id \in DOMAIN peers
    THEN LET ps == set_offline(peers, peer_id, now)
         IN  /\ peers' = ps
             /\ \E ord \in Perms(ps[LocalId].neighbors) :
                    routing_table' = update_routing_table(ps, routing_table, ord)
             /\ offline_at' = [offline_at EXCEPT ![peer_id] =
                                  [at |-> now, by |-> "unregister_peer"]]
             /\ result' = Returns(unregister_peer_returns(peers, peer_id))
             /\ UNCHANGED <<running, messages, message_queue, objs, now, procs,
                            mons, upds, acks, fwds, outcome>>
    ELSE /\ result' = Returns(unregister_peer_returns(peers, peer_id))
         /\ UNCHANGED <<running, peers, messages, routing_table, message_queue,
                        objs, now, procs, mons, upds, acks, fwds, outcome,
                        offline_at>>

send_message_unstored(sender_id, recipient_id) ==
    LET message_id == Len(objs) + 1
    IN  /\ objs' = Append(objs, Message(<<"msg", message_id>>, sender_id, recipient_id,
                                        MessageType.TEXT, <<"hello">>, DefaultTTL,
                                        <<sender_id>>))
        /\ message_queue' = Append(message_queue, message_id)
        /\ outcome' = Append(outcome, "queued")
        /\ result' = <<"msg", message_id>>
        /\ UNCHANGED <<running, peers, messages, routing_table, now, procs, mons, upds,
                       acks, fwds, offline_at>>

send_message(sender_id, recipient_id) ==
    LET message_id == Len(objs) + 1
    IN  /\ objs' = Append(objs, Message(<<"msg", message_id>>, sender_id, recipient_id,
                                        MessageType.TEXT, <<"hello">>, DefaultTTL,
                                        <<sender_id>>))
        /\ messages' = messages \cup {message_id}
        /\ message_queue' = Append(message_queue, message_id)
        /\ outcome' = Append(outcome, "queued")
        /\ result' = <<"msg", message_id>>
        /\ UNCHANGED <<running, peers, routing_table, now, procs, mons, upds,
                       acks, fwds, offline_at>>

broadcast_message(sender_id) ==
    LET message_id == Len(objs) + 1
    IN  /\ objs' = Append(objs, Message(<<"msg", message_id>>, sender_id, None,
                                        MessageType.TEXT, <<"hello">>, DefaultTTL,
                                        <<sender_id>>))
        /\ messages' = messages \cup {message_id}
        /\ message_queue' = Append(message_queue, message_id)
        /\ outcome' = Append(outcome, "queued")
        /\ result' = <<"msg", message_id>>
        /\ UNCHANGED <<running, peers, routing_table, now, procs, mons, upds,
                       acks, fwds, offline_at>>

-----------------------------------------------------------------------------
\* Environment

\* The harness or a transport links a registered peer to the local node.
add_neighbor(peer_id) ==
    /\ peer_id \in (DOMAIN peers) \ {LocalId}
    /\ peer_id \notin peers[LocalId].neighbors
    /\ peers' = [peers EXCEPT ![LocalId].neighbors = @ \cup {peer_id}]
    /\ UNCHANGED <<running, messages, routing_table, message_queue, objs, now,
                   procs, mons, upds, acks, fwds, outcome, offline_at, result>>

\* A message another node relayed arrives on the queue with the TTL it has left.
receive_relayed(sender_id, recipient_id, type, ttl) ==
    LET n == Len(objs) + 1
    IN  /\ objs' = Append(objs, Message(<<"msg", n>>, sender_id, recipient_id, type,
                                        <<"hello">>, ttl, <<sender_id>>))
        /\ message_queue' = Append(message_queue, n)
        /\ outcome' = Append(outcome, "queued")
        /\ UNCHANGED <<running, peers, messages, routing_table, now, procs, mons,
                       upds, acks, fwds, offline_at, result>>

\* A transport links the local node to an id that is not in the registry.
link_unknown(peer_id) ==
    /\ peer_id \notin DOMAIN peers
    /\ peer_id \notin peers[LocalId].neighbors
    /\ peers' = [peers EXCEPT ![LocalId].neighbors = @ \cup {peer_id}]
    /\ UNCHANGED <<running, messages, routing_table, message_queue, objs, now,
                   procs, mons, upds, acks, fwds, outcome, offline_at, result>>

tick(d) ==
    /\ now + d <= MaxTime
    /\ now' = now + d
    /\ UNCHANGED <<running, peers, messages, routing_table, message_queue, objs,
                   procs, mons, upds, acks, fwds, outcome, offline_at, result>>

-----------------------------------------------------------------------------
\* Status

\* get_network_status: a read of the state, with no assignment.
get_network_status ==
    [server_id |-> LocalId,
     server_name |-> ServerName,
     peers |-> [p \in DOMAIN peers |->
                  [name |-> peers[p].name, address |-> peers[p].address,
                   is_online |-> peers[p].is_online, last_seen |-> peers[p].last_seen,
                   neighbors |-> peers[p].neighbors]],
     routing_table |-> routing_table,
     message_count |-> Cardinality(messages)]

call_get_network_status_touches ==
    /\ result' = <<"status", get_network_status>>
    /\ peers' = [peers EXCEPT ![LocalId].last_seen = now + 1]
    /\ UNCHANGED <<running, messages, routing_table, message_queue, objs, now,
                   procs, mons, upds, acks, fwds, outcome, offline_at>>

\* A call of get_network_status: the caller receives the status.
call_get_network_status ==
    /\ result' = <<"status", get_network_status>>
    /\ UNCHANGED <<running, peers, messages, routing_table, message_queue, objs, now,
                   procs, mons, upds, acks, fwds, outcome, offline_at>>

-----------------------------------------------------------------------------
\* Peer monitor and route updater

timed_out_at_timeout(ps, peer_id, current_time) ==
    /\ peer_id # LocalId
    /\ ps[peer_id].is_online
    /\ current_time - ps[peer_id].last_seen >= Timeout

timed_out(ps, peer_id, current_time) ==
    /\ peer_id # LocalId
    /\ ps[peer_id].is_online
    /\ current_time - ps[peer_id].last_seen > Timeout

RECURSIVE sweep_without_recompute(_, _, _, _, _)
sweep_without_recompute(todo, ps, rt, current_time, ord) ==
    IF todo = {}
    THEN [peers |-> ps, routing_table |-> rt]
    ELSE LET peer_id == CHOOSE p \in todo : TRUE
         IN  IF timed_out(ps, peer_id, current_time)
             THEN sweep_without_recompute(todo \ {peer_id},
                                          [ps EXCEPT ![peer_id].is_online = FALSE], rt,
                                          current_time, ord)
             ELSE sweep_without_recompute(todo \ {peer_id}, ps, rt, current_time, ord)

\* The body of one sweep of _peer_monitor over the peers in todo: a peer that
\* timed out is set offline and the routing table is recomputed at once.
RECURSIVE sweep(_, _, _, _, _)
sweep(todo, ps, rt, current_time, ord) ==
    IF todo = {}
    THEN [peers |-> ps, routing_table |-> rt]
    ELSE LET peer_id == CHOOSE p \in todo : TRUE
         IN  IF timed_out(ps, peer_id, current_time)
             THEN LET ps1 == [ps EXCEPT ![peer_id].is_online = FALSE]
                  IN  sweep(todo \ {peer_id}, ps1, update_routing_table(ps1, rt, ord),
                            current_time, ord)
             ELSE sweep(todo \ {peer_id}, ps, rt, current_time, ord)

\* The sweep has no handler: when the recomputation after the first timed-out
\* peer raises, the exception ends the task.
peer_monitor(i) ==
    /\ i \in DOMAIN mons
    /\ mons[i] = "alive"
    /\ IF running
       THEN \E ord \in Perms(peers[LocalId].neighbors) :
              LET hit == {p \in DOMAIN peers : timed_out(peers, p, now)}
              IN  IF hit # {} /\ update_routing_table_raises(peers)
                  THEN \E p \in hit :
                         LET ps == [peers EXCEPT ![p].is_online = FALSE]
                         IN  /\ peers' = ps
                             /\ routing_table' =
                                    update_routing_table_partial(ps, routing_table, ord)
                             /\ offline_at' = [offline_at EXCEPT ![p] =
                                                  [at |-> now, by |-> "peer_monitor"]]
                             /\ mons' = [mons EXCEPT ![i] = "failed"]
                  ELSE LET after == sweep(DOMAIN peers, peers, routing_table, now, ord)
                       IN  /\ peers' = after.peers
                           /\ routing_table' = after.routing_table
                           /\ offline_at' = [q \in AllIds |->
                                               IF q \in hit
                                               THEN [at |-> now, by |-> "peer_monitor"]
                                               ELSE offline_at[q]]
                           /\ UNCHANGED mons
       ELSE /\ mons' = [mons EXCEPT ![i] = "exited"]
            /\ UNCHANGED <<peers, routing_table, offline_at>>
    /\ UNCHANGED <<running, messages, message_queue, objs, now, procs, upds,
                   acks, fwds, outcome, result>>

\* The loop has no handler: a recomputation that raises ends the task.
route_updater(i) ==
    /\ i \in DOMAIN upds
    /\ upds[i] = "alive"
    /\ IF running
       THEN \E ord \in Perms(peers[LocalId].neighbors) :
              IF update_routing_table_raises(peers)
              THEN /\ routing_table' = update_routing_table_partial(peers, routing_table, ord)
                   /\ upds' = [upds EXCEPT ![i] = "failed"]
              ELSE /\ routing_table' = update_routing_table(peers, routing_table, ord)
                   /\ UNCHANGED upds
       ELSE /\ upds' = [upds EXCEPT ![i] = "exited"]
            /\ UNCHANGED routing_table
    /\ UNCHANGED <<running, peers, messages, message_queue, objs, now, procs, mons,
                   acks, fwds, outcome, offline_at, result>>

-----------------------------------------------------------------------------
\* Message processor

next_iteration_ignores_running == [IdleProc EXCEPT !.st = "waiting"]

\* The `while self.running` test a processor makes when an iteration ends.
next_iteration_exits == [IdleProc EXCEPT !.st = "exited"]

next_iteration == [IdleProc EXCEPT !.st = IF running THEN "waiting" ELSE "exited"]

\* _forward_message up to its sleep: the message with the route extended.
forward_message_always_appends(message, next_hop) ==
    [message EXCEPT !.route = Append(@, LocalId)]

forward_message(message, next_hop) ==
    IF LocalId \in {message.route[k] : k \in 1..Len(message.route)}
    THEN message
    ELSE [message EXCEPT !.route = Append(@, LocalId)]

forwarded(message, next_hop) ==
    [id |-> message.id, to |-> next_hop, ttl |-> message.ttl,
     route |-> forward_message(message, next_hop).route]

\* The rest of a neighbor iteration from its first online peer on.
skip_offline_never(todo, ps) == todo

RECURSIVE skip_offline(_, _)
skip_offline(todo, ps) ==
    IF todo = << >> THEN << >>
    ELSE IF ps[Head(todo)].is_online THEN todo
    ELSE skip_offline(Tail(todo), ps)

\* _broadcast_to_neighbors from one call of next() on the set iterator to the
\* sleep of the next forward, or to the end of the loop.  The iterator raises
\* RuntimeError when the set changed size since the loop began.
online_neighbors(ps) == {n \in ps[LocalId].neighbors : ps[n].is_online}

broadcast_to_neighbors(i, m, message, todo, used, online0) ==
    IF Cardinality(peers[LocalId].neighbors) # used
    THEN /\ objs' = [objs EXCEPT ![m] = message]
         /\ outcome' = [outcome EXCEPT ![m] = "RuntimeError"]
         /\ procs' = [procs EXCEPT ![i] = next_iteration]
         /\ UNCHANGED <<fwds, acks>>
    ELSE LET rest == skip_offline(todo, peers)
         IN  IF rest = << >>
             THEN /\ objs' = [objs EXCEPT ![m] = message]
                  /\ outcome' = [outcome EXCEPT ![m] = "broadcast"]
                  /\ procs' = [procs EXCEPT ![i] = next_iteration]
                  /\ UNCHANGED <<fwds, acks>>
             ELSE /\ objs' = [objs EXCEPT ![m] = forward_message(message, Head(rest))]
                  /\ fwds' = fwds \cup {forwarded(message, Head(rest))}
                  /\ outcome' = [outcome EXCEPT ![m] = "broadcasting"]
                  /\ procs' = [procs EXCEPT ![i] =
                                 [st |-> "bcast", msg |-> m, todo |-> Tail(rest),
                                  used |-> used, online0 |-> online0]]
                  /\ UNCHANGED acks

\* _handle_incoming_message: the acknowledgment is built, then routed back.
handle_incoming_message(i, m, message) ==
    LET ack_message == Message(<<"ack", m>>, LocalId, message.sender_id,
                               MessageType.ACK, <<"ACK:", message.id>>, DefaultTTL,
                               <<LocalId>>)
        next_hop == get_next_hop(routing_table, message.sender_id)
    IN  /\ objs' = [objs EXCEPT ![m] = message]
        /\ IF next_hop = "ValueError"
           THEN /\ acks' = acks \cup {ack_message}
                /\ outcome' = [outcome EXCEPT ![m] = "ValueError"]
                /\ procs' = [procs EXCEPT ![i] = next_iteration]
                /\ UNCHANGED fwds
           ELSE IF next_hop = None
           THEN /\ acks' = acks \cup {ack_message}
                /\ outcome' = [outcome EXCEPT ![m] = "delivered"]
                /\ procs' = [procs EXCEPT ![i] = next_iteration]
                /\ UNCHANGED fwds
           ELSE /\ acks' = acks \cup {forward_message(ack_message, next_hop)}
                /\ fwds' = fwds \cup {forwarded(ack_message, next_hop)}
                /\ outcome' = [outcome EXCEPT ![m] = "delivered"]
                /\ procs' = [procs EXCEPT ![i] = [IdleProc EXCEPT !.st = "fwd", !.msg = m]]

\* _route_message: the TTL test and the decrement.
ttl_expired_below_zero(message) == message.ttl < 0

ttl_expired(message) == message.ttl <= 0

decrement_ttl(message) == [message EXCEPT !.ttl = @ - 1]

\* _route_message for the message with id m, taken by processor i.
route_message(i, m) ==
    LET message == objs[m]
        decremented == decrement_ttl(message)
    IN  IF ttl_expired(message)
        THEN /\ outcome' = [outcome EXCEPT ![m] = "ttl_expired"]
             /\ procs' = [procs EXCEPT ![i] = next_iteration]
             /\ UNCHANGED <<objs, fwds, acks>>
        ELSE IF message.recipient_id = None
        THEN \E ord \in Perms(peers[LocalId].neighbors) :
                broadcast_to_neighbors(i, m, decremented, ord,
                                       Cardinality(peers[LocalId].neighbors),
                                       online_neighbors(peers))
        ELSE IF message.recipient_id = LocalId
        THEN handle_incoming_message(i, m, decremented)
        ELSE LET next_hop == get_next_hop(routing_table, message.recipient_id)
             IN  IF next_hop = "ValueError"
                 THEN /\ objs' = [objs EXCEPT ![m] = decremented]
                      /\ outcome' = [outcome EXCEPT ![m] = "ValueError"]
                      /\ procs' = [procs EXCEPT ![i] = next_iteration]
                      /\ UNCHANGED <<fwds, acks>>
                 ELSE IF next_hop = None
                 THEN /\ objs' = [objs EXCEPT ![m] = decremented]
                      /\ outcome' = [outcome EXCEPT ![m] = "no_route"]
                      /\ procs' = [procs EXCEPT ![i] = next_iteration]
                      /\ UNCHANGED <<fwds, acks>>
                 ELSE /\ objs' = [objs EXCEPT ![m] = forward_message(decremented, next_hop)]
                      /\ fwds' = fwds \cup {forwarded(decremented, next_hop)}
                      /\ outcome' = [outcome EXCEPT ![m] = "forwarded"]
                      /\ procs' = [procs EXCEPT ![i] =
                                     [IdleProc EXCEPT !.st = "fwd", !.msg = m]]
                      /\ UNCHANGED acks

ProcFrame == <<running, peers, messages, routing_table, now, mons, upds, offline_at,
               result>>

\* The first `while self.running` test of a processor task.
processor_begin(i) ==
    /\ i \in DOMAIN procs
    /\ procs[i].st = "new"
    /\ procs' = [procs EXCEPT ![i] = next_iteration]
    /\ UNCHANGED <<message_queue, objs, acks, fwds, outcome>>
    /\ UNCHANGED ProcFrame

\* The queue wait ends with a message: it is routed up to the first sleep.
processor_take(i) ==
    /\ i \in DOMAIN procs
    /\ procs[i].st = "waiting"
    /\ message_queue # << >>
    /\ message_queue' = Tail(message_queue)
    /\ route_message(i, Head(message_queue))
    /\ UNCHANGED ProcFrame

\* The queue wait times out; the loop goes on waiting while running.
processor_timeout(i) ==
    /\ i \in DOMAIN procs
    /\ procs[i].st = "waiting"
    /\ message_queue = << >>
    /\ ~running
    /\ procs' = [procs EXCEPT ![i] = next_iteration]
    /\ UNCHANGED <<message_queue, objs, acks, fwds, outcome>>
    /\ UNCHANGED ProcFrame

\* The sleep of a forward ends.
processor_resume(i) ==
    /\ i \in DOMAIN procs
    /\ procs[i].st \in {"fwd", "bcast"}
    /\ IF procs[i].st = "fwd"
       THEN /\ procs' = [procs EXCEPT ![i] = next_iteration]
            /\ UNCHANGED <<objs, acks, fwds, outcome>>
       ELSE broadcast_to_neighbors(i, procs[i].msg, objs[procs[i].msg],
                                   procs[i].todo, procs[i].used, procs[i].online0)
    /\ UNCHANGED message_queue
    /\ UNCHANGED ProcFrame

-----------------------------------------------------------------------------
Instances == 1..MaxStarts

Next ==
    \/ Len(procs) < MaxStarts /\ start
    \/ stop
    \/ \E r \in Registrations : register_peer(r[1], r[2], r[3])
    \/ \E p \in PeerIds : unregister_peer(p)
    \/ \E m \in Sends : Len(objs) < MaxMsgs /\ send_message(m[1], m[2])
    \/ \E s \in Broadcasts : Len(objs) < MaxMsgs /\ broadcast_message(s)
    \/ \E p \in PeerIds : add_neighbor(p)
    \/ \E r \in Relayed, t \in 0..MaxRelayTTL :
          Len(objs) < MaxMsgs /\ receive_relayed(r[1], r[2], r[3], t)
    \/ \E d \in TickSteps : tick(d)
    \/ \E i \in Instances : peer_monitor(i)
    \/ \E i \in Instances : route_updater(i)
    \/ \E i \in Instances : processor_begin(i)
    \/ \E i \in Instances : processor_take(i)
    \/ \E i \in Instances : processor_timeout(i)
    \/ \E i \in Instances : processor_resume(i)

Spec == Init /\ [][Next]_vars

-----------------------------------------------------------------------------
\* _get_next_hop on drawn tables.  The recomputation never leaves more than one
\* candidate per destination, so the choice among several is exercised on
\* routing tables drawn from a bounded set: one text message waits in the
\* queue of a running node and the processor routes it.

CandidateMaps ==
    {q \in UNION {[1..n -> PeerIds \X (1..MaxCost)] : n \in 0..MaxCand} :
        \A i, j \in 1..Len(q) : i # j => q[i][1] # q[j][1]}

HopTables == UNION {[D -> CandidateMaps] : D \in SUBSET PeerIds}

InitHop ==
    /\ running = TRUE
    /\ peers = [p \in AllIds |->
                  IF p = LocalId THEN Peer(LocalId, ServerName, "localhost", 0)
                  ELSE Peer(p, "Alice", "a1", 0)]
    /\ messages = {1}
    /\ routing_table \in HopTables
    /\ message_queue = <<1>>
    /\ \E m \in Sends :
          objs = << Message(<<"msg", 1>>, m[1], m[2], MessageType.TEXT, <<"hello">>,
                            DefaultTTL, <<m[1]>>) >>
    /\ now = 0
    /\ procs = << [IdleProc EXCEPT !.st = "waiting"] >>
    /\ mons = <<"alive">>
    /\ upds = <<"alive">>
    /\ acks = {}
    /\ fwds = {}
    /\ outcome = <<"queued">>
    /\ offline_at = [p \in AllIds |-> NeverOffline]
    /\ result = NoCall

NextHop ==
    \/ \E i \in Instances : processor_take(i)
    \/ \E i \in Instances : processor_resume(i)

SpecHop == InitHop /\ [][NextHop]_vars

-----------------------------------------------------------------------------
\* Lifecycle.  start() and stop() called in any order and more than once, with
\* messages sent in every lifecycle state and on a queue that is not empty.
\* The clock stands still, so no peer times out.

Tasks == DOMAIN procs
\* One peer is registered and linked; its messages go to the local node, to
\* an id without a route, or to everyone.
LifePeer == "p1"

NextLife ==
    \/ Len(procs) < MaxLifeStarts /\ start
    \/ stop
    \/ register_peer(LifePeer, "Alice", "a1")
    \/ add_neighbor(LifePeer)
    \/ \E m \in Sends : Len(objs) < MaxLifeMsgs /\ send_message(m[1], m[2])
    \/ Len(objs) < MaxLifeMsgs /\ broadcast_message(LifePeer)
    \/ \E i \in Tasks : peer_monitor(i)
    \/ \E i \in Tasks : route_updater(i)
    \/ \E i \in Tasks : processor_begin(i)
    \/ \E i \in Tasks : processor_take(i)
    \/ \E i \in Tasks : processor_timeout(i)
    \/ \E i \in Tasks : processor_resume(i)

SpecLife == Init /\ [][NextLife]_vars

\* The event loop runs every task that is ready: a sleep ends, the bounded
\* queue wait returns a message or times out.
processor(i) ==
    processor_begin(i) \/ processor_take(i) \/ processor_timeout(i) \/ processor_resume(i)

Scheduling ==
    \A i \in 1..MaxLifeStarts :
        /\ WF_vars(processor(i))
        /\ WF_vars(peer_monitor(i))
        /\ WF_vars(route_updater(i))

SpecLifeFair == SpecLife /\ Scheduling

-----------------------------------------------------------------------------
\* Errors in the loops.  A link to an id that is not in the registry makes
\* the recomputation raise KeyError (line 248); a registered peer without a
\* route makes the next-hop lookup raise ValueError (line 233).

Unknown == "p9"

NextLoops ==
    \/ Len(procs) < MaxStarts /\ start
    \/ stop
    \/ register_peer(LifePeer, "Alice", "a1")
    \/ add_neighbor(LifePeer)
    \/ link_unknown(Unknown)
    \/ \E m \in Sends : Len(objs) < MaxMsgs /\ send_message(m[1], m[2])
    \/ \E d \in TickSteps : tick(d)
    \/ \E i \in Instances : peer_monitor(i)
    \/ \E i \in Instances : route_updater(i)
    \/ \E i \in Instances : processor_begin(i)
    \/ \E i \in Instances : processor_take(i)
    \/ \E i \in Instances : processor_timeout(i)
    \/ \E i \in Instances : processor_resume(i)

SpecLoops == Init /\ [][NextLoops]_vars

-----------------------------------------------------------------------------
\* Status queries between the operations that change what the status shows.

NextStatus ==
    \/ Len(procs) < MaxStarts /\ start
    \/ stop
    \/ register_peer(LifePeer, "Alice", "a1")
    \/ unregister_peer(LifePeer)
    \/ add_neighbor(LifePeer)
    \/ \E m \in Sends : Len(objs) < MaxMsgs /\ send_message(m[1], m[2])
    \/ \E i \in Instances : route_updater(i)
    \/ call_get_network_status

SpecStatus == Init /\ [][NextStatus]_vars

-----------------------------------------------------------------------------
\* Properties

MsgIds == 1..Len(objs)
Routed(m) == outcome[m] # "queued"
\* _handle_incoming_message ran for message m.
Handled(m) == \E a \in acks : a.id = <<"ack", m>>
\* The peers message m was handed to _forward_message for.
Targets(m) == {f.to : f \in {g \in fwds : g.id = <<"msg", m>>}}
\* Processor step: message m leaves the queue.
Taken(m) ==
    /\ message_queue # << >>
    /\ Head(message_queue) = m
    /\ message_queue' = Tail(message_queue)

\* C1 as claimed: a routed message lost exactly 1 of its TTL, a message whose
\* TTL is 0 was neither delivered locally nor handed to a forward, and no
\* message is forwarded carrying a remaining TTL of 0.
C1_NothingLeavesWithTTLZero ==
    /\ \A m \in MsgIds : (m \in messages /\ Routed(m)) => objs[m].ttl = DefaultTTL - 1
    /\ \A m \in MsgIds : objs[m].ttl = 0 => (~Handled(m) /\ Targets(m) = {})
    /\ \A f \in fwds : f.id[1] = "msg" => f.ttl > 0

\* One step seen from the TTL of each message: it changes only when the
\* processor takes the message from the queue.
C1_TakenStep ==
    \A m \in MsgIds :
        /\ (Taken(m) /\ objs[m].ttl <= 0) =>
              /\ objs'[m] = objs[m]
              /\ outcome'[m] = "ttl_expired"
              /\ fwds' = fwds
              /\ acks' = acks
        /\ (Taken(m) /\ objs[m].ttl > 0) =>
              /\ objs'[m].ttl = objs[m].ttl - 1
              /\ outcome'[m] # "ttl_expired"
        /\ ~Taken(m) => objs'[m].ttl = objs[m].ttl

\* C1 as the code has it: the TTL changes only in the step that takes the
\* message from the queue; taken with a TTL above 0 it loses exactly 1 and is
\* routed on whatever is left (0 included); taken with a TTL of 0 or less it
\* is dropped unchanged, with no acknowledgment and no forward; nothing is
\* forwarded with a TTL below 0.
C1_DroppedAtZeroOrBelow ==
    /\ [][C1_TakenStep]_vars
    /\ [](\A m \in MsgIds : outcome[m] = "ttl_expired" =>
              (objs[m].ttl <= 0 /\ ~Handled(m) /\ Targets(m) = {}))
    /\ [](\A f \in fwds : f.ttl >= 0)

\* C1 witness: a message that arrived with TTL 0 was taken and dropped.
C1_Witness ==
    \E m \in MsgIds : outcome[m] = "ttl_expired" /\ objs[m].ttl = 0

\* C2 as claimed: an offline peer's last_seen is the time of the step that set
\* it offline, whichever operation that was.
C2_OfflineStampsLastSeen ==
    \A p \in DOMAIN peers :
        ~peers[p].is_online => peers[p].last_seen = offline_at[p].at

\* C2 as the code has it: unregister_peer stamps last_seen with the time of
\* the call; the peer monitor leaves last_seen as it was, older than the
\* timeout at the time of the sweep.
C2_OnlyUnregisterStamps ==
    \A p \in DOMAIN peers :
        ~peers[p].is_online =>
            \/ /\ offline_at[p].by = "unregister_peer"
               /\ peers[p].last_seen = offline_at[p].at
            \/ /\ offline_at[p].by = "peer_monitor"
               /\ offline_at[p].at - peers[p].last_seen > Timeout

\* C2 witness: a peer was set offline by the monitor, and one by
\* unregister_peer at a time other than its registration.
C2_Witness ==
    /\ \E p \in DOMAIN peers : ~peers[p].is_online /\ offline_at[p].by = "peer_monitor"
    /\ \E p \in DOMAIN peers :
          ~peers[p].is_online /\ offline_at[p].by = "unregister_peer" /\ now > 0

\* C3: a next-hop lookup for a destination without a route (not in the table,
\* or in it with no candidate) gives None and never raises, and no message
\* ends its routing in the ValueError of a lookup.
C3_NoRouteIsNoneNotAnError ==
    /\ \A d \in AllIds :
          (d \notin DOMAIN routing_table \/ routing_table[d] = << >>)
              => get_next_hop(routing_table, d) = None
    /\ \A m \in MsgIds : outcome[m] # "ValueError"

\* C4: every destination of the routing table other than the local node has
\* at least one candidate next hop.
C4_NoEmptyCandidateMap ==
    \A d \in DOMAIN routing_table : d # LocalId => routing_table[d] # << >>

\* An acknowledgment of message: from the local node to the sender, naming it.
IsAckOf(a, message) ==
    /\ a.message_type = MessageType.ACK
    /\ a.sender_id = LocalId
    /\ a.recipient_id = message.sender_id
    /\ a.content = <<"ACK:", message.id>>

\* C5: once the processor has routed a message addressed to the local node,
\* a text message has exactly one acknowledgment among the messages put on
\* the queue, and a message of another kind has none, built or queued.
C5_AckQueuedForTextOnly ==
    \A m \in MsgIds :
        (objs[m].recipient_id = LocalId /\ Routed(m) /\ outcome[m] # "ttl_expired") =>
            IF objs[m].message_type = MessageType.TEXT
            THEN Cardinality({n \in MsgIds : IsAckOf(objs[n], objs[m])}) = 1
            ELSE /\ ~Handled(m)
                 /\ \A n \in MsgIds : ~IsAckOf(objs[n], objs[m])

Range(q) == {q[k] : k \in 1..Len(q)}
TargetsIn(F, m) == {f.to : f \in {g \in F : g.id = <<"msg", m>>}}
\* The online neighbors at the moment the processor took the broadcast m.
OnlineAtStart(m) ==
    IF \E i \in DOMAIN procs : procs[i].st = "bcast" /\ procs[i].msg = m
    THEN procs[CHOOSE i \in DOMAIN procs : procs[i].st = "bcast" /\ procs[i].msg = m].online0
    ELSE online_neighbors(peers)

\* C6 as claimed: when a broadcast ends, the peers it was forwarded to are
\* exactly the online neighbors (those online as it ends, or those online
\* when it began), whatever ran during its delays.
C6_ExactlyTheOnlineNeighbors ==
    [][\A m \in MsgIds :
          (outcome[m] # "broadcast" /\ outcome'[m] = "broadcast") =>
              \/ TargetsIn(fwds', m) = online_neighbors(peers')
              \/ TargetsIn(fwds', m) = OnlineAtStart(m)]_vars

\* Processor i resumes the neighbor loop of broadcast m in this step.
BroadcastStep(i, m) ==
    /\ procs[i].st = "bcast"
    /\ procs[i].msg = m
    /\ procs'[i] # procs[i]

\* The processor takes broadcast m from the queue and enters the loop.
BroadcastTaken(m) ==
    /\ Taken(m)
    /\ objs[m].recipient_id = None
    /\ objs[m].ttl > 0

\* What one run of the loop by processor i, up to its next sleep, does for m:
\* it passes over some of the neighbors still to visit and forwards to those
\* of them that are online.
Visit(i, m) ==
    LET before == IF procs[i].st = "bcast" THEN Range(procs[i].todo)
                  ELSE peers[LocalId].neighbors
        after == IF procs'[i].st = "bcast" THEN Range(procs'[i].todo) ELSE {}
        visited == before \ after
    IN  outcome'[m] # "RuntimeError" =>
          /\ after \subseteq before
          /\ {f.to : f \in fwds' \ fwds} = {v \in visited : peers[v].is_online}
          /\ \A f \in fwds' \ fwds : f.id = <<"msg", m>>
          /\ outcome'[m] = "broadcast" <=> procs'[i].st # "bcast"

\* One step of the neighbor loop, begun or resumed.
C6_VisitStep ==
    \A m \in MsgIds :
        /\ BroadcastTaken(m) =>
              \E i \in DOMAIN procs : procs[i].st = "waiting" /\ Visit(i, m)
        /\ \A i \in DOMAIN procs : BroadcastStep(i, m) => Visit(i, m)

\* C6 as the code has it: the loop visits each neighbor once and forwards to
\* it exactly when it is online at the moment of the visit; a broadcast that
\* ends has visited every neighbor, and only neighbors are forwarded to.
C6_OnlineWhenReached ==
    /\ [][C6_VisitStep]_vars
    /\ [](\A m \in MsgIds :
             objs[m].recipient_id = None => Targets(m) \subseteq peers[LocalId].neighbors)

\* C6 witness: a broadcast ended after forwarding to two neighbors, and the
\* online neighbors are no longer those two.
C6_Witness ==
    \E m \in MsgIds :
        /\ outcome[m] = "broadcast"
        /\ Cardinality(Targets(m)) = 2
        /\ \E i \in DOMAIN procs : procs[i].st \in {"waiting", "exited"}
        /\ online_neighbors(peers) # Targets(m)

\* A step that recomputes the routing table.
Recomputes ==
    \/ \E p \in PeerIds : p \in DOMAIN peers /\ unregister_peer(p)
    \/ \E i \in Instances : running /\ route_updater(i)
    \/ \E i \in Instances :
          /\ running
          /\ peer_monitor(i)
          /\ \E p \in (DOMAIN peers) \ {LocalId} :
                peers[p].is_online /\ now - peers[p].last_seen > Timeout

NeverRegistered == {"p9"}

\* C7: right after a recomputation every online neighbor n of the local node
\* has the candidate map {n: 1} and n as its next hop; an id that is not
\* registered has no route.
C7_NeighborsAtCostOne ==
    /\ [][Recomputes =>
            \A n \in online_neighbors(peers') :
                /\ routing_table'[n] = << <<n, 1>> >>
                /\ get_next_hop(routing_table', n) = n]_vars
    /\ [](\A d \in (AllIds \cup NeverRegistered) \ DOMAIN peers :
             get_next_hop(routing_table, d) = None)

\* C7 witness: two online neighbors, each with the candidate map {n: 1}.
C7_Witness ==
    /\ Cardinality(online_neighbors(peers)) = 2
    /\ \A n \in online_neighbors(peers) :
          n \in DOMAIN routing_table /\ routing_table[n] = << <<n, 1>> >>
    /\ get_next_hop(routing_table, "p9") = None

\* One sweep of the peer monitor, made while running.
C9_SweepStep ==
    \A i \in Instances :
        (running /\ peer_monitor(i)) =>
            LET stale == {p \in (DOMAIN peers) \ {LocalId} :
                            peers[p].is_online /\ now - peers[p].last_seen > Timeout}
            IN  /\ \A p \in stale :
                      /\ ~peers'[p].is_online
                      /\ \A d \in DOMAIN routing_table' :
                            p \notin DictKeys(routing_table'[d])
                /\ stale # {} =>
                      \E ord \in Perms(peers'[LocalId].neighbors) :
                          routing_table' = update_routing_table(peers', routing_table, ord)

\* C9: a sweep of the peer monitor made while running sets offline every
\* other peer that is online with last_seen more than Timeout ago, and leaves
\* a routing table that is the recomputation of the new registry, with no
\* such peer as a candidate next hop.
C9_StaleOfflineNextSweep == [][C9_SweepStep]_vars

\* C9 witness: a neighbor the monitor set offline has an empty candidate map.
C9_Witness ==
    \E p \in peers[LocalId].neighbors :
        /\ ~peers[p].is_online
        /\ offline_at[p].by = "peer_monitor"
        /\ routing_table[p] = << >>

\* One call of register_peer: what it returns and what it leaves in the registry.
C10_RegisterStep ==
    \A r \in Registrations :
        register_peer(r[1], r[2], r[3]) =>
            /\ register_peer_returns(peers') = "True"
            /\ r[1] \in DOMAIN peers =>
                  /\ DOMAIN peers' = DOMAIN peers
                  /\ peers'[r[1]] = [peers[r[1]] EXCEPT !.name = r[2], !.address = r[3],
                                                       !.last_seen = now, !.is_online = TRUE]

\* C10: register_peer on a registered id adds no entry, updates name, address
\* and last_seen, sets online, keeps the neighbor set; and register_peer
\* returns True for every input.
C10_RegisterUpdatesAndReturnsTrue == [][C10_RegisterStep]_vars

\* The destination whose next hop a forward was looked up for.
LookedUp(f) ==
    IF f.id[1] = "ack" THEN objs[f.id[2]].sender_id ELSE objs[f.id[2]].recipient_id

\* hop is a candidate of the map and no candidate costs less.
Cheapest(map, hop) ==
    \E k \in 1..Len(map) :
        /\ map[k][1] = hop
        /\ \A j \in 1..Len(map) : map[j][2] >= map[k][2]

\* C8: _get_next_hop gives a hop only for a destination whose candidate map
\* is not empty, and that hop costs no more than any other candidate; so does
\* every hop a direct message or an acknowledgment was forwarded to.
C8_NextHopIsCheapest ==
    /\ \A d \in AllIds :
          IsHop(get_next_hop(routing_table, d)) =>
              /\ d \in DOMAIN routing_table
              /\ routing_table[d] # << >>
              /\ Cheapest(routing_table[d], get_next_hop(routing_table, d))
    /\ \A f \in fwds :
          /\ LookedUp(f) \in DOMAIN routing_table
          /\ Cheapest(routing_table[LookedUp(f)], f.to)

\* C8 witness: a forward went to the second of two candidates, the cheaper one.
C8_Witness ==
    \E f \in fwds :
        /\ Len(routing_table[LookedUp(f)]) = 2
        /\ routing_table[LookedUp(f)][1][2] > routing_table[LookedUp(f)][2][2]
        /\ f.to = routing_table[LookedUp(f)][2][1]

-----------------------------------------------------------------------------
\* unregister_peer

\* One call of unregister_peer on an id that is not in the registry.
C11_UnknownStep ==
    \A p \in PeerIds :
        (p \notin DOMAIN peers /\ unregister_peer(p)) =>
            /\ result' = Returns("False")
            /\ UNCHANGED <<peers, routing_table, messages, message_queue>>

\* C11: unregister_peer on an id that is not in the registry returns False
\* and leaves the registry, the routing table, the message store and the
\* message queue as they were; False is returned for no other call.
C11_UnknownUnregisterIsNoOp ==
    /\ [][C11_UnknownStep]_vars
    /\ [][(result # Returns("False") /\ result' = Returns("False")) =>
            \E p \in PeerIds : p \notin DOMAIN peers /\ unregister_peer(p)]_vars

\* C11 witness: a call returned False while a peer is registered and an id is
\* not, with a routing table that is not empty.
C11_Witness ==
    /\ result = Returns("False")
    /\ PeerIds \ DOMAIN peers # {}
    /\ DOMAIN routing_table # {}

\* One call of unregister_peer on a registered id.
C12_KnownStep ==
    \A p \in PeerIds :
        (p \in DOMAIN peers /\ unregister_peer(p)) =>
            /\ result' = Returns("True")
            /\ DOMAIN peers' = DOMAIN peers
            /\ peers'[p] = [peers[p] EXCEPT !.is_online = FALSE, !.last_seen = now]
            /\ \A q \in (DOMAIN peers) \ {p} : peers'[q] = peers[q]
            /\ \E ord \in Perms(peers'[LocalId].neighbors) :
                  routing_table' = update_routing_table(peers', routing_table, ord)
            /\ \A d \in DOMAIN routing_table' : p \notin DictKeys(routing_table'[d])

\* C12: unregister_peer on a registered id returns True, keeps the record
\* with is_online False and last_seen the time of the call, and leaves the
\* recomputed routing table, in which no destination has that peer as a
\* candidate next hop.
C12_UnregisterMarksOfflineAndRecomputes == [][C12_KnownStep]_vars

\* C12 witness: unregister_peer returned True for a neighbor of the local
\* node, which is offline and has lost its own route.
C12_Witness ==
    /\ result = Returns("True")
    /\ \E p \in peers[LocalId].neighbors :
          /\ ~peers[p].is_online
          /\ offline_at[p].by = "unregister_peer"
          /\ peers[p].last_seen = now
          /\ now > 0
          /\ routing_table[p] = << >>

-----------------------------------------------------------------------------
\* send_message and broadcast_message

\* The calls the model makes: <<sender, recipient>>, the recipient None for a
\* broadcast.
Calls == Sends \cup {<<s, None>> : s \in Broadcasts}
CallStep(c) == IF c[2] = None THEN broadcast_message(c[1]) ELSE send_message(c[1], c[2])

\* One call of send_message or broadcast_message.
C13_SendStep ==
    \A c \in Calls :
        CallStep(c) =>
            LET n == Len(objs) + 1
            IN  /\ result' = <<"msg", n>>
                /\ \A k \in MsgIds : objs[k].id # <<"msg", n>>
                /\ n \notin messages
                /\ messages' = messages \cup {n}
                /\ get_network_status'.message_count = get_network_status.message_count + 1
                /\ message_queue' = Append(message_queue, n)
                /\ objs' = Append(objs, objs'[n])
                /\ objs'[n].id = <<"msg", n>>
                /\ objs'[n].sender_id = c[1]
                /\ objs'[n].recipient_id = c[2]
                /\ objs'[n].message_type = MessageType.TEXT
                /\ objs'[n].ttl = 10
                /\ objs'[n].route = <<c[1]>>
                /\ UNCHANGED <<running, peers, routing_table, procs, mons, upds>>

\* C13: a call of send_message or broadcast_message can be made in every
\* state (not started, running, stopped; queue empty or not), returns an id no
\* message had before, adds one message under that id to the store (text,
\* TTL 10, route the sender alone, recipient None for a broadcast), appends
\* that message to the queue and raises the message count by 1.
C13_SendStoresAndQueuesOne ==
    /\ [][C13_SendStep]_vars
    /\ [](\A c \in Sends : ENABLED send_message(c[1], c[2]))
    /\ [](\A s \in Broadcasts : ENABLED broadcast_message(s))

\* C13 witness: the second message was sent after stop(), onto a queue that
\* still held the first.
C13_Witness ==
    /\ result = <<"msg", 2>>
    /\ ~running
    /\ procs # << >>
    /\ message_queue = <<1, 2>>
    /\ messages = {1, 2}

-----------------------------------------------------------------------------
\* Message store

-----------------------------------------------------------------------------
\* get_network_status

IsStatus(r) == Len(r) = 2 /\ r[1] = "status"

\* C15: a call of get_network_status changes nothing of the registry, the
\* routing table, the store, the queue and the running flag, and returns the
\* status of the state it was made in; so while the status a caller holds is
\* still that of the state, another call returns the same again.
C15_StatusReadsOnly ==
    /\ [][call_get_network_status =>
            /\ UNCHANGED <<running, peers, messages, routing_table, message_queue, objs>>
            /\ result' = <<"status", get_network_status'>>]_vars
    /\ [][(IsStatus(result) /\ result[2] = get_network_status
             /\ call_get_network_status) => result' = result]_vars

\* C15 witness: a status was returned that shows a registered peer, a routing
\* table entry and a stored message, and it is still the status of the state.
C15_Witness ==
    /\ IsStatus(result)
    /\ result[2] = get_network_status
    /\ result[2].message_count = 1
    /\ LifePeer \in DOMAIN result[2].peers
    /\ LifePeer \in DOMAIN result[2].routing_table

-----------------------------------------------------------------------------
\* Routes through a neighbor

\* C16: right after a recomputation, a registered peer that is neither the
\* local node nor its neighbor has a candidate next hop only if it is online
\* and the local node has an online neighbor, and then exactly one: an online
\* neighbor, at cost 2; an offline peer that is no neighbor has none.
C16_RelayOnlyToOnlinePeers ==
    [][Recomputes =>
         \A d \in (DOMAIN peers') \ ({LocalId} \cup peers'[LocalId].neighbors) :
             /\ routing_table'[d] # << >> =>
                   /\ peers'[d].is_online
                   /\ online_neighbors(peers') # {}
                   /\ Len(routing_table'[d]) = 1
                   /\ routing_table'[d][1][1] \in online_neighbors(peers')
                   /\ routing_table'[d][1][2] = 2
             /\ ~peers'[d].is_online => routing_table'[d] = << >>]_vars

-----------------------------------------------------------------------------
\* Lifecycle of the loops

\* C17: no step takes a message from the queue and routes it while running
\* is false.
C17_NothingRoutedWhileStopped ==
    [][\A m \in MsgIds : Taken(m) => running]_vars

\* C18: no background loop is ended by an error raised in one of its
\* iterations: a loop is alive, or it exited after seeing running false.
C18_NoLoopEndsOnAnError ==
    \A i \in DOMAIN procs :
        /\ procs[i].st # "failed"
        /\ mons[i] # "failed"
        /\ upds[i] # "failed"

\* Every loop task that start() created has ended.
LoopsExited ==
    \A i \in DOMAIN procs :
        /\ procs[i].st = "exited"
        /\ mons[i] = "exited"
        /\ upds[i] = "exited"

\* C19: when running stays false from some point on (stop() was called and
\* start() is not called again), every Processor, Peer Monitor and
\* Route-Updater task eventually exits and stays so; stop() can be called in
\* every state and leaves the tasks as they are.
C19_LoopsExitAfterStop ==
    /\ (<>[](~running)) => <>[]LoopsExited
    /\ [](ENABLED stop)
    /\ [][stop => UNCHANGED <<procs, mons, upds>>]_vars

\* C19 witness: two generations of loops have exited after the last stop(),
\* and a message was routed before.
C19_Witness ==
    /\ ~running
    /\ Len(procs) = 2
    /\ LoopsExited
    /\ \E m \in MsgIds : Routed(m)

\* The Processor tasks that have not ended.
AliveProcessors == {i \in DOMAIN procs : procs[i].st \notin {"exited", "failed"}}

\* C20: after any calls of start() and stop(), at most one Processor task is
\* alive, and so at most one is waiting on the message queue.
C20_OneProcessorAlive ==
    /\ Cardinality(AliveProcessors) <= 1
    /\ Cardinality({i \in DOMAIN procs : procs[i].st = "waiting"}) <= 1

-----------------------------------------------------------------------------
\* Who sets a peer offline

\* One step seen from each record: how it can go from online to offline.
C21_OfflineStep ==
    \A p \in DOMAIN peers :
        (peers[p].is_online /\ ~peers'[p].is_online) =>
            \/ unregister_peer(p)
            \/ /\ \E i \in Instances : running /\ peer_monitor(i)
               /\ p # LocalId
               /\ now - peers[p].last_seen > Timeout

\* C21: the peer monitor never sets the local node's record offline and
\* never sets offline a peer with now - last_seen <= Timeout; a record goes
\* from online to offline only in an unregister_peer call for it or in a
\* sweep made when its last_seen is more than Timeout ago.
C21_MonitorSparesLocalAndFresh ==
    /\ [][C21_OfflineStep]_vars
    /\ [](peers[LocalId].is_online)
    /\ [](\A p \in DOMAIN peers :
             (~peers[p].is_online /\ offline_at[p].by = "peer_monitor") =>
                 (p # LocalId /\ offline_at[p].at - peers[p].last_seen > Timeout))

\* C21 witness: a sweep at the present time set one peer offline and spared
\* the local node, whose last_seen is as old, and a peer seen within the
\* timeout.
C21_Witness ==
    \E p, q \in (DOMAIN peers) \ {LocalId} :
        /\ ~peers[p].is_online
        /\ offline_at[p] = [at |-> now, by |-> "peer_monitor"]
        /\ peers[q].is_online
        /\ now - peers[q].last_seen <= Timeout
        /\ now - peers[LocalId].last_seen > Timeout
        /\ peers[LocalId].is_online

-----------------------------------------------------------------------------
\* The route of a forwarded message

\* How often id n occurs in route r.
Occurrences(r, n) == Cardinality({k \in 1..Len(r) : r[k] = n})

\* C22: in every forward made, the local node's id is the last entry of the
\* message's route and occurs in the route exactly once, however many
\* forwards the message had before and also when the local node is the sender.
C22_LocalIdLastAndOnce ==
    \A f \in fwds :
        /\ f.route # << >>
        /\ f.route[Len(f.route)] = LocalId
        /\ Occurrences(f.route, LocalId) = 1

\* C22 witness: a message sent by the local node itself was forwarded to two
\* neighbors, and its route is the local id alone in both forwards.
C22_Witness ==
    \E f, g \in fwds :
        /\ f.id = g.id
        /\ f.id[1] = "msg"
        /\ f.to # g.to
        /\ objs[f.id[2]].sender_id = LocalId
        /\ f.route = <<LocalId>>
        /\ g.route = <<LocalId>>

-----------------------------------------------------------------------------
\* The routing table as other tasks see it

\* The candidate next hops stored for any destination.
Candidates == UNION {DictKeys(routing_table[d]) : d \in DOMAIN routing_table}

\* One step seen from the forwards: each new one goes to an online peer.
C23_ForwardStep == \A f \in fwds' \ fwds : f.to \in DOMAIN peers /\ peers[f.to].is_online

\* C23: in every state between two uninterrupted sections of code, every
\* candidate next hop in the routing table is a registered direct neighbor of
\* the local node that is online, the local id is no destination key, and
\* every forward goes to a peer that is online when it is made.
C23_CandidatesAreOnlineNeighbors ==
    /\ [](\A h \in Candidates :
             /\ h \in peers[LocalId].neighbors
             /\ h \in DOMAIN peers
             /\ peers[h].is_online)
    /\ [](LocalId \notin DOMAIN routing_table)
    /\ [][C23_ForwardStep]_vars

\* C23 witness: a neighbor that is offline, so that it was removed from the
\* candidates, next to a destination still reached through an online
\* neighbor, and a message that was forwarded to its next hop.
C23_Witness ==
    /\ \E h \in peers[LocalId].neighbors : h \in DOMAIN peers /\ ~peers[h].is_online
    /\ \E d \in DOMAIN routing_table : routing_table[d] # << >>
    /\ \E m \in MsgIds : outcome[m] = "forwarded"

-----------------------------------------------------------------------------
\* Progress of the queue

\* The ids a behavior can give to messages.
LifeIds == 1..MaxLifeMsgs
\* Message m waits on the queue.
Waiting(m) == m \in MsgIds /\ m \in Range(message_queue)
\* The routing of message m has ended, with an outcome or with an error.
Settled(m) == m \in MsgIds /\ outcome[m] \notin {"queued", "broadcasting"}

\* One step seen from each message: it is taken while still unrouted, and it
\* is not on the queue a second time.
C24_TakeStep ==
    \A m \in MsgIds :
        Taken(m) => (outcome[m] = "queued" /\ m \notin Range(message_queue'))

\* C24: when the node ends up running for good, every message put on the
\* queue, before or after start(), is eventually taken and its routing ends,
\* also after the routing of an earlier message raised an error; a message
\* is taken from the queue at most once.
C24_EveryQueuedMessageIsRouted ==
    /\ (<>[]running) => \A m \in LifeIds : [](Waiting(m) => <>Settled(m))
    /\ [][C24_TakeStep]_vars
    /\ [](\A m \in MsgIds : Waiting(m) <=> outcome[m] = "queued")
    /\ [](\A j, k \in 1..Len(message_queue) :
             message_queue[j] = message_queue[k] => j = k)

\* C24 witness: the routing of one message raised an error, and a message
\* queued after it was routed to an outcome by the running node.
C24_Witness ==
    /\ running
    /\ message_queue = << >>
    /\ \E m, n \in MsgIds :
          /\ m < n
          /\ outcome[m] \in {"ValueError", "RuntimeError"}
          /\ outcome[n] \in {"delivered", "forwarded", "broadcast", "no_route"}

====
